---- MODULE Spec2Model ----
(***************************************************************************)
(* Model of the quick-notes backend: NotesService (create, findAll,        *)
(* findOne, update, remove) over the Prisma note store and the Redis       *)
(* search cache, with the request DTO validation in front of it; the       *)
(* registration of users (AuthService.register over UsersService.create);  *)
(* and the response interceptor of the client's api.                       *)
(*                                                                         *)
(* Strings are sequences of one-character strings, so that substring       *)
(* matching, sorting and joining are computed and not assumed.  An         *)
(* optional value is a sequence of length at most one: <<>> is undefined,  *)
(* <<v>> is the value v.                                                   *)
(***************************************************************************)
EXTENDS Integers, Sequences, FiniteSets, TLC

VARIABLES
    notes,      \* the note table: id -> row, for the ids that exist
    nextId,     \* the next id the store allocates
    now,        \* the last timestamp the store issued (updatedAt)
    cache,      \* the search cache: key -> entry, for the keys that exist
    procs,      \* the requests, one per request slot: in flight or answered
    ver,        \* history: per user, the number of store mutations applied
    users,      \* the user table: the rows in the order they were inserted
    regs,       \* the register calls, one per slot: in flight or answered
    localStorage, \* the browser's localStorage: which tokens it holds
    reqs        \* the client's requests through api, one per slot

\* the state of the registration, and of the client
authVars == <<users, regs>>
clientVars == <<localStorage, reqs>>
\* the state of the notes service
notesVars == <<notes, nextId, now, cache, procs, ver>>

vars == <<notes, nextId, now, cache, procs, ver, users, regs, localStorage, reqs>>

-----------------------------------------------------------------------------
(* Bounds of the model *)

\* ids the store allocates in one behaviour of Spec
MaxNotes == 1
\* store mutations per user in one behaviour
MaxVer == 2
\* rows of the largest uniform store SpecFn starts from
MaxStore == 11
\* the seconds that pass in one step of the clock of the cache
TickLen == 150

(* Program constants *)

\* the TTL findAll passes to cacheService.set
CacheTtl == 300
\* the default of QueryNotesDto.limit
DefaultLimit == 10
\* the default of QueryNotesDto.page
DefaultPage == 1
\* the maximum of limit the README documents
MaxLimit == 100

Users == {"u1", "u2"}
Procs == {"p1", "p2"}

-----------------------------------------------------------------------------
(* Strings *)

\* the code unit order of the characters the model uses
CharRank(c) ==
    CASE c = "," -> 0
      [] c = "A" -> 1
      [] c = "B" -> 2
      [] c = "a" -> 3
      [] c = "b" -> 4
      [] c = "x" -> 5

\* String.prototype.toLowerCase on one character
LowerChar(c) ==
    CASE c = "A" -> "a"
      [] c = "B" -> "b"
      [] OTHER -> c

Lower(s) == [i \in 1..Len(s) |-> LowerChar(s[i])]

\* s < t in the order Array.prototype.sort uses by default
RECURSIVE LexLess(_, _)
LexLess(s, t) ==
    IF t = <<>> THEN FALSE
    ELSE IF s = <<>> THEN TRUE
    ELSE IF s[1] # t[1] THEN CharRank(s[1]) < CharRank(t[1])
    ELSE LexLess(Tail(s), Tail(t))

\* t occurs in s as a substring
Contains(s, t) ==
    \E i \in 1..(Len(s) + 1) :
        /\ i + Len(t) - 1 <= Len(s)
        /\ SubSeq(s, i, i + Len(t) - 1) = t

\* a match that tells the cases of the letters apart (no mode: 'insensitive')
ContainsSensitive(s, t) == Contains(s, t)

\* { contains: t, mode: 'insensitive' }
ContainsInsensitive(s, t) == Contains(Lower(s), Lower(t))

Range(s) == {s[i] : i \in 1..Len(s)}

\* the elements of a set of strings in ascending order
RECURSIVE SortedSeq(_)
SortedSeq(S) ==
    IF S = {} THEN <<>>
    ELSE LET m == CHOOSE x \in S : \A y \in S \ {x} : LexLess(x, y)
         IN <<m>> \o SortedSeq(S \ {m})

\* Array.prototype.join
RECURSIVE Join(_, _)
Join(list, sep) ==
    IF list = <<>> THEN <<>>
    ELSE IF Len(list) = 1 THEN list[1]
    ELSE list[1] \o sep \o Join(Tail(list), sep)

Min2(a, b) == IF a < b THEN a ELSE b
Max2(a, b) == IF a > b THEN a ELSE b

-----------------------------------------------------------------------------
(* The cache adapter: CacheService over the key-value store *)

\* the separator the sorted tag list is joined by
TagSep == <<",">>

\* the term part of the key: the empty string when no term is given
NormTerm(search) == IF search = <<>> THEN <<>> ELSE search[1]

\* the tag part of the key: the tags deduplicated and sorted
NormTags(tags) == IF tags = <<>> THEN <<>> ELSE SortedSeq(Range(tags[1]))

\* CacheService.generateNotesSearchKey
generateNotesSearchKey(userId, search, tags, page, limit) ==
    <<userId, NormTerm(search), Join(NormTags(tags), TagSep), page, limit>>

\* the keys the user-scoped pattern of invalidateUserNotesCache matches
UserKeys(c, userId) == {k \in DOMAIN c : k[1] = userId}

\* CacheService.invalidateUserNotesCache, when the store answers
invalidateUserNotesCache(c, userId) ==
    [k \in (DOMAIN c) \ UserKeys(c, userId) |-> c[k]]

\* CacheService.set, when the store answers
CachePut(c, key, entry) ==
    [k \in (DOMAIN c) \cup {key} |-> IF k = key THEN entry ELSE c[k]]

-----------------------------------------------------------------------------
(* The note store: prisma.note *)

Row(id, userId, title, content, tags, updatedAt) ==
    [id |-> id, userId |-> userId, title |-> title, content |-> content,
     tags |-> tags, updatedAt |-> updatedAt]

\* the where clause findAll builds
BuildWhere(userId, search, tags) ==
    [userId |-> userId,
     OR |-> IF search # <<>> /\ search[1] # <<>> THEN <<search[1]>> ELSE <<>>,
     hasEvery |-> IF tags # <<>> /\ Len(tags[1]) > 0 THEN <<tags[1]>> ELSE <<>>]

\* a filter that asks for one of the tags (hasSome) where the code asks for
\* all of them
RowMatchesSome(row, where) ==
    /\ row.userId = where.userId
    /\ where.OR # <<>> =>
          \/ ContainsInsensitive(row.title, where.OR[1])
          \/ ContainsInsensitive(row.content, where.OR[1])
    /\ (where.hasEvery # <<>> /\ where.hasEvery[1] # <<>>) =>
          \E t \in Range(where.hasEvery[1]) : t \in Range(row.tags)

\* a filter without the owner: the term and the tags only
RowMatchesAnyOwner(row, where) ==
    /\ where.OR # <<>> =>
          \/ ContainsInsensitive(row.title, where.OR[1])
          \/ ContainsInsensitive(row.content, where.OR[1])
    /\ where.hasEvery # <<>> =>
          \A t \in Range(where.hasEvery[1]) : t \in Range(row.tags)

\* a row satisfies a where clause
RowMatches(row, where) ==
    /\ row.userId = where.userId
    /\ where.OR # <<>> =>
          \/ ContainsInsensitive(row.title, where.OR[1])
          \/ ContainsInsensitive(row.content, where.OR[1])
    /\ where.hasEvery # <<>> =>
          \A t \in Range(where.hasEvery[1]) : t \in Range(row.tags)

Matching(tbl, where) == {id \in DOMAIN tbl : RowMatches(tbl[id], where)}

\* the orders ORDER BY updatedAt DESC may return the rows in: rows with
\* equal updatedAt come in any order
RECURSIVE Orders(_, _)
Orders(tbl, ids) ==
    IF ids = {} THEN {<<>>}
    ELSE LET top == {i \in ids : \A j \in ids : tbl[j].updatedAt <= tbl[i].updatedAt}
         IN UNION {{<<tbl[i]>> \o rest : rest \in Orders(tbl, ids \ {i})} : i \in top}

\* OFFSET skip LIMIT take
Slice(rows, skip, take) == SubSeq(rows, skip + 1, Min2(skip + take, Len(rows)))

\* the results prisma.note.findMany({ where, skip, take, orderBy }) may return
findMany(tbl, where, skip, take) ==
    {Slice(rows, skip, take) : rows \in Orders(tbl, Matching(tbl, where))}

\* a ceiling that rounds down: what Math.floor(total / limit) would give
FloorDiv(total, limit) == total \div limit

\* prisma.note.count({ where })
count(tbl, where) == Cardinality(Matching(tbl, where))

\* Math.ceil(total / limit), for limit >= 1
CeilDiv(total, limit) == (total + limit - 1) \div limit

\* the object findAll returns on a cache miss
PageResult(rows, total, page, limit) ==
    [notes |-> rows, total |-> total, page |-> page, limit |-> limit,
     totalPages |-> CeilDiv(total, limit)]

-----------------------------------------------------------------------------
(* Requests *)

NoPage == [notes |-> <<>>, total |-> -1, page |-> 0, limit |-> 0, totalPages |-> -1]
NoQuery == [search |-> <<>>, tags |-> <<>>, page |-> 0, limit |-> 0]
NoDto == [title |-> <<>>, content |-> <<>>, tags |-> <<>>]

\* a request slot with no request in it
Idle ==
    [op |-> "none", pc |-> "idle", user |-> "u1", q |-> NoQuery, key |-> <<>>,
     id |-> 0, dto |-> NoDto, items |-> <<>>, total |-> <<>>,
     status |-> "", page |-> NoPage, hit |-> FALSE,
     \* what findOne or getAllTags returned
     out |-> <<>>,
     \* history of the request
     getFailed |-> FALSE, setFailed |-> FALSE, readVer |-> 0,
     myVer |-> 0, invOk |-> FALSE]

Free(p) == procs[p].pc \in {"idle", "done"}

\* QueryNotesDto: page and limit are optional integers, @Min(1)
ValidQuery(dto) ==
    /\ IF dto.page = <<>> THEN TRUE ELSE dto.page[1] >= 1
    /\ IF dto.limit = <<>> THEN TRUE ELSE dto.limit[1] >= 1

\* const { search, tags, page = 1, limit = 10 } = queryDto
Destructure(dto) ==
    [search |-> dto.search, tags |-> dto.tags,
     page |-> IF dto.page = <<>> THEN DefaultPage ELSE dto.page[1],
     limit |-> IF dto.limit = <<>> THEN DefaultLimit ELSE dto.limit[1]]

\* a key made of the tag list as the caller wrote it
FindAllKeyRaw(userId, q) ==
    <<userId, NormTerm(q.search),
      IF q.tags = <<>> THEN <<>> ELSE Join(q.tags[1], TagSep), q.page, q.limit>>

\* the key findAll looks up and stores under
FindAllKey(userId, q) ==
    generateNotesSearchKey(userId, q.search, q.tags, q.page, q.limit)

\* the query a key stands for: the user, the normalized term, the set of
\* required tags, the page and the page size
Meaning(userId, q) ==
    <<userId, NormTerm(q.search),
      IF q.tags = <<>> THEN {} ELSE Range(q.tags[1]), q.page, q.limit>>

\* CreateNoteDto: title and content are non-empty strings
ValidCreate(dto) == dto.title # <<>> /\ dto.content # <<>>

\* the mutations of user u the store has applied are counted up to MaxVer
Budget(u) == ver[u] < MaxVer

\* @updatedAt: the timestamp the store gives its next write; the clock has
\* advanced since the write before (rows with equal updatedAt are among the
\* stores of InitStores)
Stamps == {now + 1}

-----------------------------------------------------------------------------
(* NotesService.findAll *)

\* the request is rejected by the validation of QueryNotesDto
FindAllInvalid(p, u, dto) ==
    /\ Free(p)
    /\ ~ValidQuery(dto)
    /\ procs' = [procs EXCEPT ![p] =
          [Idle EXCEPT !.op = "findAll", !.pc = "done", !.user = u,
                       !.status = "BadRequest"]]
    /\ UNCHANGED <<notes, nextId, now, cache, ver, authVars, clientVars>>

\* the request once findAll has derived its key
Started(u, dto) ==
    LET q == Destructure(dto)
    IN [Idle EXCEPT !.op = "findAll", !.user = u, !.q = q, !.key = FindAllKey(u, q)]

\* a hit that reads the store again and writes the entry anew
FindAllHitRefreshes(p, u, dto) ==
    /\ Free(p)
    /\ ValidQuery(dto)
    /\ LET r == Started(u, dto)
       IN /\ r.key \in DOMAIN cache
          /\ procs' = [procs EXCEPT ![p] =
                [r EXCEPT !.pc = "done", !.status = "ok", !.hit = TRUE,
                          !.page = cache[r.key].page]]
          /\ cache' = [cache EXCEPT ![r.key].age = 0]
    /\ UNCHANGED <<notes, nextId, now, ver, authVars, clientVars>>

\* cacheService.get finds an entry: findAll returns it
FindAllHit(p, u, dto) ==
    /\ Free(p)
    /\ ValidQuery(dto)
    /\ LET r == Started(u, dto)
       IN /\ r.key \in DOMAIN cache
          /\ procs' = [procs EXCEPT ![p] =
                [r EXCEPT !.pc = "done", !.status = "ok", !.hit = TRUE,
                          !.page = cache[r.key].page]]
    /\ UNCHANGED <<notes, nextId, now, cache, ver, authVars, clientVars>>

\* cacheService.get finds nothing: findAll goes on to query the store
FindAllMiss(p, u, dto) ==
    /\ Free(p)
    /\ ValidQuery(dto)
    /\ LET r == Started(u, dto)
       IN /\ r.key \notin DOMAIN cache
          /\ procs' = [procs EXCEPT ![p] = [r EXCEPT !.pc = "query"]]
    /\ UNCHANGED <<notes, nextId, now, cache, ver, authVars, clientVars>>

\* a cache read failure that reaches the caller
FindAllGetThrows(p, u, dto) ==
    /\ Free(p)
    /\ ValidQuery(dto)
    /\ procs' = [procs EXCEPT ![p] =
          [Started(u, dto) EXCEPT !.pc = "done", !.status = "CacheError",
                                  !.getFailed = TRUE]]
    /\ UNCHANGED <<notes, nextId, now, cache, ver, authVars, clientVars>>

\* cacheService.get fails: it answers as for a miss
FindAllGetFails(p, u, dto) ==
    /\ Free(p)
    /\ ValidQuery(dto)
    /\ procs' = [procs EXCEPT ![p] =
          [Started(u, dto) EXCEPT !.pc = "query", !.getFailed = TRUE]]
    /\ UNCHANGED <<notes, nextId, now, cache, ver, authVars, clientVars>>

\* the where clause of the request in slot p
WhereOf(r) == BuildWhere(r.user, r.q.search, r.q.tags)

\* an offset that is one page too far
SkipOfNextPage(q) == q.page * q.limit

\* const skip = (page - 1) * limit
SkipOf(q) == (q.page - 1) * q.limit

\* prisma.note.findMany of Promise.all answers
FindMany(p) ==
    /\ procs[p].pc = "query"
    /\ procs[p].items = <<>>
    /\ \E rows \in findMany(notes, WhereOf(procs[p]), SkipOf(procs[p].q), procs[p].q.limit) :
          procs' = [procs EXCEPT ![p].items = <<rows>>,
                                 ![p].readVer = IF procs[p].total = <<>>
                                                THEN ver[procs[p].user]
                                                ELSE procs[p].readVer]
    /\ UNCHANGED <<notes, nextId, now, cache, ver, authVars, clientVars>>

\* prisma.note.count of Promise.all answers
Count(p) ==
    /\ procs[p].pc = "query"
    /\ procs[p].total = <<>>
    /\ procs' = [procs EXCEPT ![p].total = <<count(notes, WhereOf(procs[p]))>>,
                              ![p].readVer = IF procs[p].items = <<>>
                                             THEN ver[procs[p].user]
                                             ELSE procs[p].readVer]
    /\ UNCHANGED <<notes, nextId, now, cache, ver, authVars, clientVars>>

\* a failed store read answered with an empty page, which is cached
FindAllStoreFailsCachesEmpty(p) ==
    /\ procs[p].pc = "query"
    /\ cache' = CachePut(cache, procs[p].key,
                     [page |-> PageResult(<<>>, 0, procs[p].q.page, procs[p].q.limit),
                      readVer |-> 0, setVer |-> 0,
                      by |-> Meaning(procs[p].user, procs[p].q),
                      ttl |-> CacheTtl, age |-> 0])
    /\ procs' = [procs EXCEPT ![p] =
          [@ EXCEPT !.pc = "done", !.status = "StoreError",
                    !.items = <<>>, !.total = <<>>, !.readVer = 0]]
    /\ UNCHANGED <<notes, nextId, now, ver, authVars, clientVars>>

\* one of the two store reads throws: Promise.all rejects, findAll throws
FindAllStoreFails(p) ==
    /\ procs[p].pc = "query"
    /\ procs' = [procs EXCEPT ![p] =
          [@ EXCEPT !.pc = "done", !.status = "StoreError",
                    !.items = <<>>, !.total = <<>>, !.readVer = 0]]
    /\ UNCHANGED <<notes, nextId, now, cache, ver, authVars, clientVars>>

\* the result findAll builds from the two answers
ResultOf(r) == PageResult(r.items[1], r.total[1], r.q.page, r.q.limit)

\* an entry written with twice the time to live
EntryOfLongLived(r) ==
    [page |-> ResultOf(r), readVer |-> r.readVer, setVer |-> ver[r.user],
     by |-> Meaning(r.user, r.q), ttl |-> 2 * CacheTtl, age |-> 0]

\* the entry cacheService.set writes: ttl is the time to live it is written
\* with, age the seconds since it was written
EntryOf(r) ==
    [page |-> ResultOf(r), readVer |-> r.readVer, setVer |-> ver[r.user],
     by |-> Meaning(r.user, r.q), ttl |-> CacheTtl, age |-> 0]

Returned(r) ==
    [r EXCEPT !.pc = "done", !.status = "ok", !.page = ResultOf(r),
              !.items = <<>>, !.total = <<>>]

\* cacheService.set stores the result, findAll returns it
CacheSet(p) ==
    /\ procs[p].pc = "query"
    /\ procs[p].items # <<>> /\ procs[p].total # <<>>
    /\ cache' = CachePut(cache, procs[p].key, EntryOf(procs[p]))
    /\ procs' = [procs EXCEPT ![p] = Returned(procs[p])]
    /\ UNCHANGED <<notes, nextId, now, ver, authVars, clientVars>>

\* a cache write failure that reaches the caller
CacheSetThrows(p) ==
    /\ procs[p].pc = "query"
    /\ procs[p].items # <<>> /\ procs[p].total # <<>>
    /\ procs' = [procs EXCEPT ![p].pc = "done", ![p].status = "CacheError",
                               ![p].setFailed = TRUE]
    /\ UNCHANGED <<notes, nextId, now, cache, ver, authVars, clientVars>>

\* cacheService.set fails: nothing is stored, findAll returns the result
CacheSetFails(p) ==
    /\ procs[p].pc = "query"
    /\ procs[p].items # <<>> /\ procs[p].total # <<>>
    /\ procs' = [procs EXCEPT ![p] = [Returned(procs[p]) EXCEPT !.setFailed = TRUE]]
    /\ UNCHANGED <<notes, nextId, now, cache, ver, authVars, clientVars>>

\* the key-value store drops an entry whose TTL has run out
Expire(k) ==
    /\ k \in DOMAIN cache
    /\ cache' = [j \in (DOMAIN cache) \ {k} |-> cache[j]]
    /\ UNCHANGED <<notes, nextId, now, procs, ver, authVars, clientVars>>

-----------------------------------------------------------------------------
(* NotesService.create, findOne, update, remove *)

\* the request is rejected by the validation of CreateNoteDto
CreateInvalid(p, u, dto) ==
    /\ Free(p)
    /\ ~ValidCreate(dto)
    /\ procs' = [procs EXCEPT ![p] =
          [Idle EXCEPT !.op = "create", !.pc = "done", !.user = u, !.dto = dto,
                       !.status = "BadRequest"]]
    /\ UNCHANGED <<notes, nextId, now, cache, ver, authVars, clientVars>>

\* the row prisma.note.create inserts: tags: tags || []
NewRow(id, u, dto, t) ==
    Row(id, u, dto.title, dto.content,
        IF dto.tags = <<>> THEN <<>> ELSE dto.tags[1], t)

\* prisma.note.create inserts the row
CreateStore(p, u, dto) ==
    /\ Free(p)
    /\ ValidCreate(dto)
    /\ nextId <= MaxNotes
    /\ Budget(u)
    /\ \E t \in Stamps :
          /\ notes' = [i \in (DOMAIN notes) \cup {nextId} |->
                         IF i = nextId THEN NewRow(nextId, u, dto, t) ELSE notes[i]]
          /\ now' = t
    /\ nextId' = nextId + 1
    /\ ver' = [ver EXCEPT ![u] = @ + 1]
    /\ procs' = [procs EXCEPT ![p] =
          [Idle EXCEPT !.op = "create", !.pc = "invalidate", !.user = u,
                       !.dto = dto, !.id = nextId, !.myVer = ver[u] + 1]]
    /\ UNCHANGED <<cache, authVars, clientVars>>

\* a create that invalidates the user's entries before its store call throws
CreateInvalidatesThenFails(p, u, dto) ==
    /\ Free(p)
    /\ ValidCreate(dto)
    /\ procs' = [procs EXCEPT ![p] =
          [Idle EXCEPT !.op = "create", !.pc = "done", !.user = u, !.dto = dto,
                       !.status = "StoreError"]]
    /\ cache' = invalidateUserNotesCache(cache, u)
    /\ UNCHANGED <<notes, nextId, now, ver, authVars, clientVars>>

\* prisma.note.create throws: create throws before the invalidation
CreateStoreFails(p, u, dto) ==
    /\ Free(p)
    /\ ValidCreate(dto)
    /\ procs' = [procs EXCEPT ![p] =
          [Idle EXCEPT !.op = "create", !.pc = "done", !.user = u, !.dto = dto,
                       !.status = "StoreError"]]
    /\ UNCHANGED <<notes, nextId, now, cache, ver, authVars, clientVars>>

\* an existence check that does not look at the owner
findOneAnyOwner(tbl, id, userId) ==
    IF id \notin DOMAIN tbl THEN "NotFound" ELSE "ok"

\* a findOne that hides the notes of other users as if they did not exist
findOneHidden(tbl, id, userId) ==
    IF id \notin DOMAIN tbl THEN "NotFound"
    ELSE IF tbl[id].userId # userId THEN "NotFound"
    ELSE "ok"

\* what findOne answers for the id and the caller
findOne(tbl, id, userId) ==
    IF id \notin DOMAIN tbl THEN "NotFound"
    ELSE IF tbl[id].userId # userId THEN "Forbidden"
    ELSE "ok"

\* update and remove start with findOne: it throws, or the call goes on
MutFindOne(p, u, op, id, dto) ==
    /\ Free(p)
    /\ LET found == findOne(notes, id, u)
       IN procs' = [procs EXCEPT ![p] =
            [Idle EXCEPT !.op = op, !.user = u, !.id = id, !.dto = dto,
                         !.pc = IF found = "ok" THEN "store" ELSE "done",
                         !.status = IF found = "ok" THEN "" ELSE found]]
    /\ UNCHANGED <<notes, nextId, now, cache, ver, authVars, clientVars>>

\* the row prisma.note.update({ where: { id }, data: updateNoteDto }) writes
UpdatedRow(row, dto, t) ==
    [row EXCEPT !.title = IF dto.title = <<>> THEN @ ELSE dto.title[1],
                !.content = IF dto.content = <<>> THEN @ ELSE dto.content[1],
                !.tags = IF dto.tags = <<>> THEN @ ELSE dto.tags[1],
                !.updatedAt = t]

\* prisma.note.update writes the row
UpdateStore(p) ==
    /\ procs[p].pc = "store" /\ procs[p].op = "update"
    /\ procs[p].id \in DOMAIN notes
    /\ Budget(procs[p].user)
    /\ \E t \in Stamps :
          /\ notes' = [notes EXCEPT ![procs[p].id] = UpdatedRow(@, procs[p].dto, t)]
          /\ now' = t
    /\ ver' = [ver EXCEPT ![procs[p].user] = @ + 1]
    /\ procs' = [procs EXCEPT
                      ![p].pc = "invalidate", ![p].myVer = ver[procs[p].user] + 1]
    /\ UNCHANGED <<nextId, cache, authVars, clientVars>>

\* prisma.note.delete removes the row
RemoveStore(p) ==
    /\ procs[p].pc = "store" /\ procs[p].op = "remove"
    /\ procs[p].id \in DOMAIN notes
    /\ Budget(procs[p].user)
    /\ notes' = [i \in (DOMAIN notes) \ {procs[p].id} |-> notes[i]]
    /\ ver' = [ver EXCEPT ![procs[p].user] = @ + 1]
    /\ procs' = [procs EXCEPT
                      ![p].pc = "invalidate", ![p].myVer = ver[procs[p].user] + 1]
    /\ UNCHANGED <<nextId, now, cache, authVars, clientVars>>

\* the row is gone when prisma.note.update or delete runs: Prisma throws its
\* own record-not-found error (P2025)
StoreRowGone(p) ==
    /\ procs[p].pc = "store"
    /\ procs[p].id \notin DOMAIN notes
    /\ procs' = [procs EXCEPT ![p].pc = "done", ![p].status = "P2025"]
    /\ UNCHANGED <<notes, nextId, now, cache, ver, authVars, clientVars>>

\* prisma.note.update or delete throws: the call throws before the invalidation
MutStoreFails(p) ==
    /\ procs[p].pc = "store"
    /\ procs' = [procs EXCEPT ![p].pc = "done", ![p].status = "StoreError"]
    /\ UNCHANGED <<notes, nextId, now, cache, ver, authVars, clientVars>>

\* an invalidation that flushes the whole cache
InvalidateEveryone(p) ==
    /\ procs[p].pc = "invalidate"
    /\ cache' = <<>>
    /\ procs' = [procs EXCEPT ![p].pc = "done", ![p].status = "ok", ![p].invOk = TRUE]
    /\ UNCHANGED <<notes, nextId, now, ver, authVars, clientVars>>

\* an invalidation that deletes the entry of the user's default search only
InvalidateDefaultPage(p) ==
    /\ procs[p].pc = "invalidate"
    /\ cache' = [k \in {j \in DOMAIN cache :
                           j # <<procs[p].user, <<>>, <<>>, DefaultPage, DefaultLimit>>}
                    |-> cache[k]]
    /\ procs' = [procs EXCEPT ![p].pc = "done", ![p].status = "ok", ![p].invOk = TRUE]
    /\ UNCHANGED <<notes, nextId, now, ver, authVars, clientVars>>

\* a mutation that returns without invalidating
InvalidateSkipped(p) ==
    /\ procs[p].pc = "invalidate"
    /\ procs' = [procs EXCEPT ![p].pc = "done", ![p].status = "ok", ![p].invOk = TRUE]
    /\ UNCHANGED <<notes, nextId, now, cache, ver, authVars, clientVars>>

\* cacheService.invalidateUserNotesCache deletes the user's entries, the call returns
Invalidate(p) ==
    /\ procs[p].pc = "invalidate"
    /\ cache' = invalidateUserNotesCache(cache, procs[p].user)
    /\ procs' = [procs EXCEPT ![p].pc = "done", ![p].status = "ok", ![p].invOk = TRUE]
    /\ UNCHANGED <<notes, nextId, now, ver, authVars, clientVars>>

\* an invalidation that waits for the cache without a timeout
InvalidateHangs(p) ==
    /\ procs[p].pc = "invalidate"
    /\ UNCHANGED vars

\* an invalidation failure that reaches the caller
InvalidateThrows(p) ==
    /\ procs[p].pc = "invalidate"
    /\ procs' = [procs EXCEPT ![p].pc = "done", ![p].status = "CacheError"]
    /\ UNCHANGED <<notes, nextId, now, cache, ver, authVars, clientVars>>

\* the invalidation fails: the failure is swallowed, the call returns
InvalidateFails(p) ==
    /\ procs[p].pc = "invalidate"
    /\ procs' = [procs EXCEPT ![p].pc = "done", ![p].status = "ok"]
    /\ UNCHANGED <<notes, nextId, now, cache, ver, authVars, clientVars>>

-----------------------------------------------------------------------------
(* AuthService.register over UsersService.create *)

\* the email addresses the register calls carry
Emails == {"a@x", "b@x"}
RegProcs == {"r1", "r2", "r3"}

\* a register slot with no call in it
RegIdle == [pc |-> "idle", email |-> "", status |-> ""]

RegFree(r) == regs[r].pc \in {"idle", "done"}

\* prisma.user.findUnique({ where: { email } })
findUnique(tbl, email) == {i \in DOMAIN tbl : tbl[i].email = email}

\* UsersService.create looks the email up: a user with it exists and create
\* throws ConflictException('User with this email already exists'), which
\* register rethrows as BadRequestException with the same message; or none
\* exists and create goes on to hash the password and insert
RegisterFindUnique(r, email) ==
    /\ RegFree(r)
    /\ regs' = [regs EXCEPT ![r] =
          IF findUnique(users, email) # {}
          THEN [pc |-> "done", email |-> email,
                status |-> "User with this email already exists"]
          ELSE [pc |-> "insert", email |-> email, status |-> ""]]
    /\ UNCHANGED <<users, notesVars, clientVars>>

\* prisma.user.create inserts the user; register returns the tokens
RegisterInsert(r) ==
    /\ regs[r].pc = "insert"
    /\ findUnique(users, regs[r].email) = {}
    /\ users' = Append(users, [email |-> regs[r].email])
    /\ regs' = [regs EXCEPT ![r].pc = "done", ![r].status = "ok"]
    /\ UNCHANGED <<notesVars, clientVars>>

\* prisma.user.create finds the email taken: email is a unique field of the
\* user table (findUnique takes it as the key), the insert fails with
\* Prisma's unique-constraint error (P2002), whose message does not say
\* 'already exists', so register rethrows it as it is
RegisterInsertTaken(r) ==
    /\ regs[r].pc = "insert"
    /\ findUnique(users, regs[r].email) # {}
    /\ regs' = [regs EXCEPT ![r].pc = "done", ![r].status = "P2002"]
    /\ UNCHANGED <<users, notesVars, clientVars>>

\* no register call was made
NoAuth == users = <<>> /\ regs = [r \in RegProcs |-> RegIdle]

-----------------------------------------------------------------------------
(* The client: api.interceptors.response.use *)

Reqs == {"q1", "q2"}

\* the statuses of the error responses the model sends
ErrorStatuses == {401, 500}

\* a request slot of the client with no request in it; retry is the _retry
\* flag of the request's config, sends and refreshes count the times the
\* request was sent and the POSTs to /auth/refresh made for it
ReqIdle ==
    [pc |-> "idle", retry |-> FALSE, sends |-> 0, refreshes |-> 0,
     bearer |-> FALSE, outcome |-> "", status |-> 0]

ReqFree(q) == reqs[q].pc \in {"idle", "done"}

\* the caller sends a request through api: the request interceptor adds the
\* access token when localStorage holds one
SendRequest(q) ==
    /\ ReqFree(q)
    /\ reqs' = [reqs EXCEPT ![q] =
          [ReqIdle EXCEPT !.pc = "sent", !.sends = 1,
                          !.bearer = localStorage.accessToken]]
    /\ UNCHANGED <<localStorage, notesVars, authVars>>

\* (response) => response
ResponseOk(q) ==
    /\ reqs[q].pc = "sent"
    /\ reqs' = [reqs EXCEPT ![q].pc = "done", ![q].outcome = "resolved",
                            ![q].status = 200]
    /\ UNCHANGED <<localStorage, notesVars, authVars>>

\* an error handler that does not look at the _retry flag
ResponseErrorAlwaysRetries(q, status) ==
    /\ reqs[q].pc = "sent"
    /\ reqs' = [reqs EXCEPT ![q] =
          IF status = 401
          THEN IF localStorage.refreshToken
               THEN [@ EXCEPT !.retry = TRUE, !.pc = "refreshing",
                              !.refreshes = @ + 1, !.status = status]
               ELSE [@ EXCEPT !.retry = TRUE, !.pc = "done",
                              !.outcome = "rejected", !.status = status]
          ELSE [@ EXCEPT !.pc = "done", !.outcome = "rejected", !.status = status]]
    /\ UNCHANGED <<localStorage, notesVars, authVars>>

\* async (error) => ...: on a 401 of a request not yet retried the flag is
\* set and, with a refresh token stored, the refresh is posted; every other
\* error is rejected to the caller
ResponseError(q, status) ==
    /\ reqs[q].pc = "sent"
    /\ reqs' = [reqs EXCEPT ![q] =
          IF status = 401 /\ ~reqs[q].retry
          THEN IF localStorage.refreshToken
               THEN [@ EXCEPT !.retry = TRUE, !.pc = "refreshing",
                              !.refreshes = @ + 1, !.status = status]
               ELSE [@ EXCEPT !.retry = TRUE, !.pc = "done",
                              !.outcome = "rejected", !.status = status]
          ELSE [@ EXCEPT !.pc = "done", !.outcome = "rejected", !.status = status]]
    /\ UNCHANGED <<localStorage, notesVars, authVars>>

\* the refresh answers: the new access token is stored and the request is
\* sent again, through the request interceptor
RefreshOk(q) ==
    /\ reqs[q].pc = "refreshing"
    /\ localStorage' = [localStorage EXCEPT !.accessToken = TRUE]
    /\ reqs' = [reqs EXCEPT ![q].pc = "sent", ![q].sends = @ + 1,
                            ![q].bearer = TRUE]
    /\ UNCHANGED <<notesVars, authVars>>

\* the refresh fails: both tokens are removed (and the page is sent to
\* /login), then the 401 is rejected to the caller
RefreshFails(q) ==
    /\ reqs[q].pc = "refreshing"
    /\ localStorage' = [accessToken |-> FALSE, refreshToken |-> FALSE]
    /\ reqs' = [reqs EXCEPT ![q].pc = "done", ![q].outcome = "rejected"]
    /\ UNCHANGED <<notesVars, authVars>>

\* login stores the tokens of the answer
Login ==
    /\ localStorage' = [accessToken |-> TRUE, refreshToken |-> TRUE]
    /\ localStorage' # localStorage
    /\ UNCHANGED <<reqs, notesVars, authVars>>

\* logout removes both tokens
Logout ==
    /\ localStorage' = [accessToken |-> FALSE, refreshToken |-> FALSE]
    /\ localStorage' # localStorage
    /\ UNCHANGED <<reqs, notesVars, authVars>>

\* the client has sent nothing and holds no token
NoClient ==
    /\ localStorage = [accessToken |-> FALSE, refreshToken |-> FALSE]
    /\ reqs = [q \in Reqs |-> ReqIdle]

\* no notes request was made: the store and the cache are empty
NoNotes ==
    /\ notes = <<>> /\ nextId = 1 /\ now = 0 /\ cache = <<>>
    /\ procs = [p \in Procs |-> Idle]
    /\ ver = [u \in Users |-> 0]

InitAuth == NoNotes /\ NoAuth /\ NoClient

NextAuth ==
    \/ \E r \in RegProcs, email \in Emails : RegisterFindUnique(r, email)
    \/ \E r \in RegProcs : RegisterInsert(r)
    \/ \E r \in RegProcs : RegisterInsertTaken(r)

SpecAuth == InitAuth /\ [][NextAuth]_vars

InitClient == NoNotes /\ NoAuth /\ NoClient

NextClient ==
    \/ \E q \in Reqs : SendRequest(q)
    \/ \E q \in Reqs : ResponseOk(q)
    \/ \E q \in Reqs, status \in ErrorStatuses : ResponseError(q, status)
    \/ \E q \in Reqs : RefreshOk(q)
    \/ \E q \in Reqs : RefreshFails(q)
    \/ Login
    \/ Logout

SpecClient == InitClient /\ [][NextClient]_vars

-----------------------------------------------------------------------------
(* The service under concurrent requests *)

A == <<"A">>
b == <<"b">>
x == <<"x">>
TagA == <<"a">>
TagB == <<"b">>
TagAB == <<"a", ",", "b">>

QueryDto(search, tags, page, limit) ==
    [search |-> search, tags |-> tags, page |-> page, limit |-> limit]

CreateDto(title, content, tags) ==
    [title |-> title, content |-> content, tags |-> tags]

\* the bodies of POST /notes the model sends
CreateDtos == {CreateDto(A, x, <<<<TagA>>>>), CreateDto(<<>>, x, <<>>)}

\* the bodies of PATCH /notes/:id the model sends
UpdateDtos == {[title |-> <<b>>, content |-> <<>>, tags |-> <<>>]}

\* the queries of GET /notes the model sends
QueryDtos ==
    {QueryDto(<<>>, <<>>, <<>>, <<>>),
     QueryDto(<<>>, <<>>, <<0>>, <<>>)}

\* the users whose requests interleave
SpecUsers == {"u1"}

Init ==
    /\ notes = <<>>
    /\ nextId = 1
    /\ now = 0
    /\ cache = <<>>
    /\ procs = [p \in Procs |-> Idle]
    /\ ver = [u \in Users |-> 0]
    /\ NoAuth /\ NoClient

Next ==
    \/ \E p \in Procs, u \in SpecUsers, dto \in QueryDtos : FindAllInvalid(p, u, dto)
    \/ \E p \in Procs, u \in SpecUsers, dto \in QueryDtos : FindAllHit(p, u, dto)
    \/ \E p \in Procs, u \in SpecUsers, dto \in QueryDtos : FindAllMiss(p, u, dto)
    \/ \E p \in Procs, u \in SpecUsers, dto \in QueryDtos : FindAllGetFails(p, u, dto)
    \/ \E p \in Procs : FindMany(p)
    \/ \E p \in Procs : Count(p)
    \/ \E p \in Procs : FindAllStoreFails(p)
    \/ \E p \in Procs : CacheSet(p)
    \/ \E p \in Procs : CacheSetFails(p)
    \/ \E k \in DOMAIN cache : Expire(k)
    \/ \E p \in Procs, u \in SpecUsers, dto \in CreateDtos : CreateInvalid(p, u, dto)
    \/ \E p \in Procs, u \in SpecUsers, dto \in CreateDtos : CreateStore(p, u, dto)
    \/ \E p \in Procs, u \in SpecUsers, dto \in CreateDtos : CreateStoreFails(p, u, dto)
    \/ \E p \in Procs, u \in SpecUsers, id \in 1..MaxNotes, dto \in UpdateDtos :
          MutFindOne(p, u, "update", id, dto)
    \/ \E p \in Procs, u \in SpecUsers, id \in 1..MaxNotes :
          MutFindOne(p, u, "remove", id, NoDto)
    \/ \E p \in Procs : UpdateStore(p)
    \/ \E p \in Procs : RemoveStore(p)
    \/ \E p \in Procs : StoreRowGone(p)
    \/ \E p \in Procs : MutStoreFails(p)
    \/ \E p \in Procs : Invalidate(p)
    \/ \E p \in Procs : InvalidateFails(p)

Spec == Init /\ [][Next]_vars

-----------------------------------------------------------------------------
(* findAll as a function of the store and the query: the store is drawn    *)
(* from a family of stores, then at most one request per slot is answered, *)
(* one after the other.                                                    *)

\* n notes of u1 with increasing updatedAt
Uniform(n) == [i \in 1..n |-> Row(i, "u1", A, x, <<TagA>>, i)]

\* notes of two users with different titles, contents and tags; 2 and 3
\* have the same updatedAt
Mixed ==
    <<Row(1, "u1", A, x, <<TagA>>, 1),
      Row(2, "u1", b, <<"x", "A">>, <<TagB, TagA>>, 2),
      Row(3, "u1", x, <<"a", "B">>, <<TagA, TagB, TagAB>>, 2),
      Row(4, "u1", x, x, <<TagAB>>, 3),
      Row(5, "u2", A, b, <<TagA, TagB>>, 4)>>

InitStores == {Uniform(n) : n \in 0..MaxStore} \cup {Mixed}

\* queries that page through a store
PageDtos ==
    {QueryDto(<<>>, <<>>, pg, lim) :
        pg \in {<<>>, <<0>>, <<2>>, <<3>>},
        lim \in {<<>>, <<0>>, <<1>>, <<101>>}}

\* the tag filters the model sends: none, the empty list, one tag, two tags
\* in both orders, a repeated tag, and one tag that holds the separator
TagFilters ==
    {<<>>, <<<<>>>>, <<<<TagA>>>>, <<<<TagA, TagB>>>>, <<<<TagB, TagA>>>>,
     <<<<TagA, TagA>>>>, <<<<TagAB>>>>}

\* queries that filter a store
FilterDtos ==
    {QueryDto(srch, <<>>, <<>>, <<>>) : srch \in {<<<<>>>>, <<<<"B">>>>}}
    \cup {QueryDto(<<>>, tgs, <<>>, <<>>) : tgs \in TagFilters}
    \cup {QueryDto(<<<<"a">>>>, <<<<TagA, TagB>>>>, <<>>, <<>>)}

FnDtos(tbl) == IF tbl = Mixed THEN FilterDtos ELSE PageDtos
FnUsers(tbl) == IF tbl = Mixed THEN Users ELSE {"u1"}

\* slot p takes the next request: the slots are used once, in order
FnTurn(p) ==
    /\ procs[p].pc = "idle"
    /\ \A r \in Procs \ {p} : procs[r].pc \in {"idle", "done"}
    /\ p = "p2" => procs["p1"].pc = "done"

InitFn ==
    /\ notes \in InitStores
    /\ nextId = Len(notes) + 1
    /\ now = Len(notes)
    /\ cache = <<>>
    /\ procs = [p \in Procs |-> Idle]
    /\ ver = [u \in Users |-> 0]
    /\ NoAuth /\ NoClient

NextFn ==
    \/ \E p \in Procs, u \in FnUsers(notes), dto \in FnDtos(notes) :
          FnTurn(p) /\ FindAllInvalid(p, u, dto)
    \/ \E p \in Procs, u \in FnUsers(notes), dto \in FnDtos(notes) :
          FnTurn(p) /\ FindAllHit(p, u, dto)
    \/ \E p \in Procs, u \in FnUsers(notes), dto \in FnDtos(notes) :
          FnTurn(p) /\ FindAllMiss(p, u, dto)
    \/ \E p \in Procs, u \in FnUsers(notes), dto \in FnDtos(notes) :
          FnTurn(p) /\ FindAllGetFails(p, u, dto)
    \/ \E p \in Procs : FindMany(p)
    \/ \E p \in Procs : Count(p)
    \/ \E p \in Procs : FindAllStoreFails(p)
    \/ \E p \in Procs : CacheSet(p)
    \/ \E p \in Procs : CacheSetFails(p)

SpecFn == InitFn /\ [][NextFn]_vars

-----------------------------------------------------------------------------
(* The operations on single notes and on tags, over a populated store and  *)
(* a cache that holds the pages of earlier searches of both users.         *)

\* NotesService.findOne, called by GET /notes/:id
FindOne(p, u, id) ==
    /\ Free(p)
    /\ LET found == findOne(notes, id, u)
       IN procs' = [procs EXCEPT ![p] =
            [Idle EXCEPT !.op = "findOne", !.pc = "done", !.user = u, !.id = id,
                         !.status = found,
                         !.out = IF found = "ok" THEN <<notes[id]>> ELSE <<>>]]
    /\ UNCHANGED <<notes, nextId, now, cache, ver, authVars, clientVars>>

\* notes.flatMap(note => note.tags) over the notes of the user
allTags(tbl, userId) ==
    UNION {Range(tbl[i].tags) : i \in {j \in DOMAIN tbl : tbl[j].userId = userId}}

\* the tags of the user in an order that is not sorted, when there is one
RECURSIVE UnsortedSeq(_)
UnsortedSeq(S) ==
    IF S = {} THEN <<>>
    ELSE LET m == CHOOSE t \in S : \A o \in S \ {t} : LexLess(o, t)
         IN <<m>> \o UnsortedSeq(S \ {m})

getAllTagsUnsorted(tbl, userId) == UnsortedSeq(allTags(tbl, userId))

\* [...new Set(allTags)].sort()
getAllTags(tbl, userId) == SortedSeq(allTags(tbl, userId))

\* NotesService.getAllTags: one store query, no cache call
GetAllTags(p, u) ==
    /\ Free(p)
    /\ procs' = [procs EXCEPT ![p] =
          [Idle EXCEPT !.op = "getAllTags", !.pc = "done", !.user = u,
                       !.status = "ok", !.out = getAllTags(notes, u),
                       !.readVer = ver[u]]]
    /\ UNCHANGED <<notes, nextId, now, cache, ver, authVars, clientVars>>

\* the searches whose pages the cache holds at the start: they differ in
\* term, tags, page and page size
WarmDtos ==
    {QueryDto(<<>>, <<>>, <<>>, <<>>),
     QueryDto(<<<<"B">>>>, <<>>, <<>>, <<>>),
     QueryDto(<<>>, <<<<TagA>>>>, <<>>, <<>>),
     QueryDto(<<>>, <<>>, <<2>>, <<1>>)}

\* the entry findAll has cached for the search dto of user u over the store tbl
WarmEntry(tbl, u, dto) ==
    LET q == Destructure(dto)
        where == BuildWhere(u, q.search, q.tags)
        rows == CHOOSE r \in findMany(tbl, where, SkipOf(q), q.limit) : TRUE
    IN [page |-> PageResult(rows, count(tbl, where), q.page, q.limit),
        readVer |-> 0, setVer |-> 0, by |-> Meaning(u, q), ttl |-> CacheTtl,
        age |-> 0]

\* the cache after every user has run every search of WarmDtos
Warm(tbl) ==
    LET calls == Users \X WarmDtos
        keyOf(c) == FindAllKey(c[1], Destructure(c[2]))
    IN [k \in {keyOf(c) : c \in calls} |->
           LET c == CHOOSE d \in calls : keyOf(d) = k
           IN WarmEntry(tbl, c[1], c[2])]

\* the ids the requests name: a note of u1, a note of u2, no note
StoreIds == {1, Len(Mixed), Len(Mixed) + 1}

\* the bodies of PATCH /notes/:id the model sends here: the tags change
TagUpdateDtos == {[title |-> <<>>, content |-> <<>>, tags |-> <<<<TagB>>>>]}

\* UpdateNoteDto: title, content and tags are @IsOptional; title and content
\* are @IsString, with no @IsNotEmpty, so the empty string passes
ValidUpdate(dto) ==
    /\ \A f \in {"title", "content", "tags"} : Len(dto[f]) <= 1
    /\ \A f \in {"title", "content"} :
          \A i \in DOMAIN dto[f] : \A j \in DOMAIN dto[f][i] : CharRank(dto[f][i][j]) >= 0

\* a body of PATCH /notes/:id whose title is the empty string
EmptyTitleDtos == {[title |-> << <<>> >>, content |-> <<>>, tags |-> <<>>]}

\* the bodies of PATCH /notes/:id that pass the validation of UpdateNoteDto
StoreUpdateDtos == {dto \in TagUpdateDtos \cup EmptyTitleDtos : ValidUpdate(dto)}

\* the requests are handled one at a time here
StoreProcs == {"p1"}

InitStore ==
    /\ notes \in {<<>>, Mixed}
    /\ nextId = Len(notes) + 1
    /\ now = Len(notes)
    /\ cache = Warm(notes)
    /\ procs = [p \in Procs |-> Idle]
    /\ ver = [u \in Users |-> 0]
    /\ NoAuth /\ NoClient

NextStore ==
    \/ \E p \in StoreProcs, u \in Users, id \in StoreIds : FindOne(p, u, id)
    \/ \E p \in StoreProcs, u \in Users : GetAllTags(p, u)
    \/ \E p \in StoreProcs, u \in Users, dto \in CreateDtos : CreateInvalid(p, u, dto)
    \/ \E p \in StoreProcs, u \in Users, dto \in CreateDtos : CreateStore(p, u, dto)
    \/ \E p \in StoreProcs, u \in Users, dto \in CreateDtos : CreateStoreFails(p, u, dto)
    \/ \E p \in StoreProcs, u \in Users, id \in StoreIds, dto \in StoreUpdateDtos :
          MutFindOne(p, u, "update", id, dto)
    \/ \E p \in StoreProcs, u \in Users, id \in StoreIds :
          MutFindOne(p, u, "remove", id, NoDto)
    \/ \E p \in StoreProcs : UpdateStore(p)
    \/ \E p \in StoreProcs : RemoveStore(p)
    \/ \E p \in StoreProcs : MutStoreFails(p)
    \/ \E p \in StoreProcs : Invalidate(p)
    \/ \E p \in StoreProcs : InvalidateFails(p)

SpecStore == InitStore /\ [][NextStore]_vars

-----------------------------------------------------------------------------
(* Searches while the time of the cache passes *)

\* TickLen seconds pass: the entries age, and the key-value store drops the
\* entries that have reached their time to live
Tick ==
    /\ cache # <<>>
    /\ cache' = [k \in {j \in DOMAIN cache : cache[j].age + TickLen < cache[j].ttl}
                    |-> [cache[k] EXCEPT !.age = @ + TickLen]]
    /\ UNCHANGED <<notes, nextId, now, procs, ver, authVars, clientVars>>

\* the searches sent while the time passes
TtlDtos == {QueryDto(<<>>, <<>>, <<>>, <<>>), QueryDto(<<>>, <<<<TagA>>>>, <<>>, <<>>)}

InitTtl ==
    /\ notes = Mixed
    /\ nextId = Len(notes) + 1
    /\ now = Len(notes)
    /\ cache = <<>>
    /\ procs = [p \in Procs |-> Idle]
    /\ ver = [u \in Users |-> 0]
    /\ NoAuth /\ NoClient

NextTtl ==
    \/ \E p \in Procs, dto \in TtlDtos : FindAllHit(p, "u1", dto)
    \/ \E p \in Procs, dto \in TtlDtos : FindAllMiss(p, "u1", dto)
    \/ \E p \in Procs : FindMany(p)
    \/ \E p \in Procs : Count(p)
    \/ \E p \in Procs : CacheSet(p)
    \/ Tick

SpecTtl == InitTtl /\ [][NextTtl]_vars

-----------------------------------------------------------------------------
(* The calls with every cache call in flight: cacheService.get is a step   *)
(* of its own, and a cache call that gets no answer ends by its timeout.   *)

\* findAll has derived its key and waits for cacheService.get
LiveStart(p, u, dto) ==
    /\ Free(p)
    /\ ValidQuery(dto)
    /\ procs' = [procs EXCEPT ![p] = [Started(u, dto) EXCEPT !.pc = "get"]]
    /\ UNCHANGED <<notes, nextId, now, cache, ver, authVars, clientVars>>

\* cacheService.get answers with an entry: findAll returns it
GetHit(p) ==
    /\ procs[p].pc = "get"
    /\ procs[p].key \in DOMAIN cache
    /\ procs' = [procs EXCEPT ![p].pc = "done", ![p].status = "ok", ![p].hit = TRUE,
                               ![p].page = cache[procs[p].key].page]
    /\ UNCHANGED <<notes, nextId, now, cache, ver, authVars, clientVars>>

\* cacheService.get answers with nothing
GetMiss(p) ==
    /\ procs[p].pc = "get"
    /\ procs[p].key \notin DOMAIN cache
    /\ procs' = [procs EXCEPT ![p].pc = "query"]
    /\ UNCHANGED <<notes, nextId, now, cache, ver, authVars, clientVars>>

\* cacheService.get gets no answer in time: it answers as for a miss
GetTimesOut(p) ==
    /\ procs[p].pc = "get"
    /\ procs' = [procs EXCEPT ![p].pc = "query", ![p].getFailed = TRUE]
    /\ UNCHANGED <<notes, nextId, now, cache, ver, authVars, clientVars>>

\* the requests sent: all are valid
LiveQueryDtos == {QueryDto(<<>>, <<>>, <<>>, <<>>)}
LiveCreateDtos == {CreateDto(A, x, <<<<TagA>>>>)}

\* the slot that takes the creates, updates and removes; both take searches
LiveMutProcs == {"p1"}

NextLive ==
    \/ \E p \in Procs, u \in SpecUsers, dto \in LiveQueryDtos : LiveStart(p, u, dto)
    \/ \E p \in Procs : GetHit(p)
    \/ \E p \in Procs : GetMiss(p)
    \/ \E p \in Procs : GetTimesOut(p)
    \/ \E p \in Procs : FindMany(p)
    \/ \E p \in Procs : Count(p)
    \/ \E p \in Procs : FindAllStoreFails(p)
    \/ \E p \in Procs : CacheSet(p)
    \/ \E p \in Procs : CacheSetFails(p)
    \/ \E p \in LiveMutProcs, u \in SpecUsers, dto \in LiveCreateDtos : CreateStore(p, u, dto)
    \/ \E p \in LiveMutProcs, u \in SpecUsers, dto \in LiveCreateDtos : CreateStoreFails(p, u, dto)
    \/ \E p \in LiveMutProcs, u \in SpecUsers, id \in 1..MaxNotes, dto \in UpdateDtos :
          MutFindOne(p, u, "update", id, dto)
    \/ \E p \in LiveMutProcs, u \in SpecUsers, id \in 1..MaxNotes :
          MutFindOne(p, u, "remove", id, NoDto)
    \/ \E p \in LiveMutProcs : UpdateStore(p)
    \/ \E p \in LiveMutProcs : RemoveStore(p)
    \/ \E p \in LiveMutProcs : MutStoreFails(p)
    \/ \E p \in LiveMutProcs : Invalidate(p)
    \/ \E p \in LiveMutProcs : InvalidateFails(p)

\* the steps of the call in slot p that need no answer of the cache: the
\* timeout of a cache call fires, a store call answers or throws
Unblocked(p) ==
    \/ GetTimesOut(p)
    \/ FindMany(p) \/ Count(p) \/ FindAllStoreFails(p)
    \/ CacheSetFails(p)
    \/ UpdateStore(p) \/ RemoveStore(p) \/ MutStoreFails(p)
    \/ InvalidateFails(p)

\* timeouts fire and the store answers: a call that can take such a step
\* takes one
LiveFair(p) == WF_vars(Unblocked(p))

SpecLive == Init /\ [][NextLive]_vars /\ \A p \in Procs : LiveFair(p)

-----------------------------------------------------------------------------
(* The claims *)

MutOps == {"create", "update", "remove"}

\* slot p holds the answer of a create, update or remove that returned normally
ReturnedOk(p) ==
    procs[p].op \in MutOps /\ procs[p].pc = "done" /\ procs[p].status = "ok"

\* slot p holds a page findAll returned
PageAnswer(p) ==
    procs[p].op = "findAll" /\ procs[p].pc = "done" /\ procs[p].status = "ok"

\* slot p holds a page findAll computed from the store
MissAnswer(p) == PageAnswer(p) /\ ~procs[p].hit

\* A search that starts in a state is served cache[key].page when its key is
\* in the cache (FindAllHit), so what searches can be served is stated on the
\* entries the cache holds.  An entry carries the number of the user's
\* mutations applied when its rows were read (readVer) and when it was
\* written (setVer); a mutation call carries the number it applied (myVer).

C2_NoStaleEntryLeftBehind ==
    \A p \in Procs : ReturnedOk(p) /\ procs[p].invOk =>
        \A k \in UserKeys(cache, procs[p].user) : cache[k].readVer >= procs[p].myVer

\* C3: a step of a create, update or remove changes the cache only as its
\* invalidation, after its own store mutation was applied; a call that ends
\* with an error applied no store mutation and leaves the cache as it is.
C3_InvalidateOnlyAfterStore ==
    [][\A p \in Procs :
          (procs'[p].op \in MutOps /\ procs'[p] # procs[p]) =>
              /\ cache' # cache =>
                    /\ procs[p].pc = "invalidate"
                    /\ procs[p].myVer >= 1
                    /\ ver[procs[p].user] >= procs[p].myVer
              /\ (procs'[p].pc = "done" /\ procs'[p].status # "ok") =>
                    /\ cache' = cache
                    /\ notes' = notes
                    /\ procs'[p].myVer = 0]_vars

\* a create, update or remove has failed while the cache holds an entry
C3_Witness ==
    \E p \in Procs :
        /\ procs[p].op \in MutOps /\ procs[p].pc = "done"
        /\ procs[p].status \in {"StoreError", "NotFound", "P2025"}
        /\ UserKeys(cache, procs[p].user) # {}

\* no create, update or remove of user u is in flight
NoMutationInFlight(u) ==
    \A r \in Procs :
        (procs[r].user = u /\ procs[r].op \in MutOps) => procs[r].pc = "done"

\* C4: while no mutation of the user's notes has followed (or overlaps) the
\* store reads of a findAll that computed its page and cached it, an
\* identical findAll is a cache hit only on that page: the entry under its
\* key holds the page the first call returned.
C4_RepeatReturnsSamePage ==
    \A p \in Procs :
        (/\ MissAnswer(p) /\ ~procs[p].setFailed
         /\ procs[p].readVer = ver[procs[p].user]
         /\ NoMutationInFlight(procs[p].user)
         /\ procs[p].key \in DOMAIN cache) =>
            cache[procs[p].key].page = procs[p].page

\* the tags a query requires
RequiredTags(q) == IF q.tags = <<>> THEN {} ELSE Range(q.tags[1])

\* the term of the query is absent or empty, or occurs in the title or the
\* content of the row, whatever the case of the letters
TermHolds(row, q) ==
    IF q.search = <<>> THEN TRUE
    ELSE IF q.search[1] = <<>> THEN TRUE
    ELSE \/ ContainsInsensitive(row.title, q.search[1])
         \/ ContainsInsensitive(row.content, q.search[1])

\* the ids of the rows of the page in slot p
PageIds(p) == {procs[p].page.notes[j].id : j \in 1..Len(procs[p].page.notes)}

\* the notes of the user of slot p that satisfy its term filter and carry every
\* required tag
Wanted(p) ==
    {i \in DOMAIN notes :
        /\ notes[i].userId = procs[p].user
        /\ TermHolds(notes[i], procs[p].q)
        /\ RequiredTags(procs[p].q) \subseteq Range(notes[i].tags)}

\* C5: on a cache miss with a non-empty set T of required tags, findAll
\* counts and returns exactly the notes of the user that satisfy the term
\* filter and whose tags include every tag of T: its total is their number,
\* every row of the page is one of them, and a first page that is large enough
\* holds them all.
C5_TagFilterConjunctive ==
    \A p \in Procs : (MissAnswer(p) /\ RequiredTags(procs[p].q) # {}) =>
        /\ procs[p].page.total = Cardinality(Wanted(p))
        /\ PageIds(p) \subseteq Wanted(p)
        /\ (procs[p].q.page = 1 /\ Cardinality(Wanted(p)) <= procs[p].q.limit) =>
              PageIds(p) = Wanted(p)

\* a search requiring a and b has left out the note tagged a alone and the
\* note tagged "a,b" alone, and returned the notes tagged b,a and a,b,"a,b"
C5_Witness ==
    \E p \in Procs :
        /\ MissAnswer(p) /\ notes = Mixed /\ procs[p].user = "u1"
        /\ procs[p].q.search = <<>>
        /\ RequiredTags(procs[p].q) = {TagA, TagB}
        /\ PageIds(p) = {2, 3}

\* C6: on a cache miss the page holds the rows at the positions
\* [(page-1)*limit, page*limit) of the matching notes in descending order of
\* updatedAt: min(limit, max(0, total - (page-1)*limit)) rows, each a matching
\* note as the store holds it, no note twice, in descending order, with as
\* many matching notes ahead of the first row as the pages before it hold;
\* total is the number of matching notes on every page, and totalPages does
\* not depend on the page.
C6_Pagination ==
    \A p \in Procs : MissAnswer(p) =>
        LET pg == procs[p].page
            rows == pg.notes
            q == procs[p].q
            skip == (q.page - 1) * q.limit
            newer(t) == Cardinality({i \in Wanted(p) : notes[i].updatedAt > t})
            notOlder(t) == Cardinality({i \in Wanted(p) : notes[i].updatedAt >= t})
        IN /\ pg.total = Cardinality(Wanted(p))
           /\ pg.page = q.page /\ pg.limit = q.limit
           /\ Len(rows) = Min2(q.limit, Max2(0, pg.total - skip))
           /\ \A j \in 1..Len(rows) :
                 rows[j].id \in Wanted(p) /\ rows[j] = notes[rows[j].id]
           /\ \A j, k \in 1..Len(rows) :
                 j < k => rows[j].id # rows[k].id /\ rows[j].updatedAt >= rows[k].updatedAt
           /\ \A j \in 1..Len(rows) :
                 /\ newer(rows[j].updatedAt) <= skip + j - 1
                 /\ notOlder(rows[j].updatedAt) >= skip + j
           /\ pg.totalPages * q.limit >= pg.total
           /\ (pg.totalPages - 1) * q.limit < pg.total

\* 11 notes, page size 10: page 2 holds the oldest note alone, totalPages is 2
C6_Witness ==
    \E p \in Procs :
        /\ MissAnswer(p) /\ Len(notes) = 11
        /\ procs[p].q.page = 2 /\ procs[p].q.limit = 10
        /\ Len(procs[p].page.notes) = 1
        /\ procs[p].page.notes[1].id = 1
        /\ procs[p].page.totalPages = 2

\* C7: in every page findAll returns, totalPages is the least number of
\* pages of the page size that hold total notes: 0 when total is 0, 1 when
\* total is between 1 and the page size.
C7_TotalPages ==
    \A p \in Procs : PageAnswer(p) =>
        LET pg == procs[p].page
        IN /\ pg.totalPages >= 0
           /\ pg.totalPages * pg.limit >= pg.total
           /\ (pg.totalPages - 1) * pg.limit < pg.total
           /\ pg.total = 0 => pg.totalPages = 0
           /\ (1 <= pg.total /\ pg.total <= pg.limit) => pg.totalPages = 1

\* a page with total 1 and page size 10 has totalPages 1
C7_Witness ==
    \E p \in Procs :
        /\ PageAnswer(p)
        /\ procs[p].page.total = 1 /\ procs[p].page.limit = 10
        /\ procs[p].page.totalPages = 1

\* C8: no findAll queries the store, returns a page or caches one with a page
\* below 1 or a page size outside 1..100.
C8_InputsNormalized ==
    /\ \A p \in Procs :
          (procs[p].op = "findAll" /\ (procs[p].pc = "query" \/ PageAnswer(p))) =>
              /\ procs[p].q.page >= 1
              /\ procs[p].q.limit >= 1 /\ procs[p].q.limit <= MaxLimit
    /\ \A k \in DOMAIN cache : k[4] >= 1 /\ k[5] >= 1 /\ k[5] <= MaxLimit

\* C9: when a findAll has cached its page, a following findAll of the same
\* user with the same term, page and page size whose tag list holds the same
\* tags, in any order and with any repetition, derives the same key and, if
\* the cache answers, is a cache hit that returns the page of the first.
C9_KeyIgnoresTagOrder ==
    LET first == procs["p1"]
        second == procs["p2"]
    IN (/\ MissAnswer("p1") /\ ~first.setFailed
        /\ second.op = "findAll" /\ second.key # <<>>
        /\ Meaning(second.user, second.q) = Meaning(first.user, first.q)) =>
           /\ second.key = first.key
           /\ ~second.getFailed => (PageAnswer("p2") /\ second.hit /\ second.page = first.page)

\* a search requiring b,a was a cache hit on the page cached for a,b
C9_Witness ==
    /\ MissAnswer("p1") /\ procs["p1"].q.tags = <<<<TagA, TagB>>>>
    /\ PageAnswer("p2") /\ procs["p2"].q.tags = <<<<TagB, TagA>>>>
    /\ procs["p2"].hit /\ procs["p2"].page = procs["p1"].page

C12_FindOneErrors ==
    [][\A p \in Procs :
          (Free(p) /\ procs'[p] # procs[p]
              /\ procs'[p].op \in {"findOne", "update", "remove"}) =>
             LET r == procs'[p]
             IN IF r.id \notin DOMAIN notes
                THEN r.pc = "done" /\ r.status = "NotFound" /\ r.out = <<>>
                ELSE IF notes[r.id].userId # r.user
                THEN r.pc = "done" /\ r.status = "Forbidden" /\ r.out = <<>>
                ELSE IF r.op = "findOne"
                THEN r.pc = "done" /\ r.status = "ok" /\ r.out = <<notes[r.id]>>
                ELSE r.pc = "store"]_vars

\* a findOne on a note of another user has failed with Forbidden
C12_Witness ==
    \E p \in Procs :
        /\ procs[p].op = "findOne" /\ procs[p].pc = "done"
        /\ procs[p].id \in DOMAIN notes
        /\ notes[procs[p].id].userId # procs[p].user
        /\ procs[p].status = "Forbidden"

\* C13: what getAllTags returned is strictly ascending, so holds no tag
\* twice, and holds exactly the tags on the notes the store holds for the
\* user, whatever the cache holds.
C13_GetAllTags ==
    \A p \in Procs :
        (procs[p].op = "getAllTags" /\ procs[p].pc = "done"
            /\ procs[p].readVer = ver[procs[p].user]) =>
           LET out == procs[p].out
               mine == {i \in DOMAIN notes : notes[i].userId = procs[p].user}
           IN /\ procs[p].status = "ok"
              /\ \A i, j \in 1..Len(out) : i < j => LexLess(out[i], out[j])
              /\ \A t \in Range(out) : \E i \in mine : t \in Range(notes[i].tags)
              /\ \A i \in mine : Range(notes[i].tags) \subseteq Range(out)

\* getAllTags has returned several tags after a mutation of the user whose
\* invalidation failed: the cache still holds the pages of the old notes
C13_Witness ==
    \E p \in Procs :
        /\ procs[p].op = "getAllTags" /\ procs[p].pc = "done"
        /\ ver[procs[p].user] >= 1
        /\ Len(procs[p].out) >= 2
        /\ UserKeys(cache, procs[p].user) # {}

\* the pages findAll can compute for the request in slot p from the store as
\* it is, with nothing in the cache
Computed(p) ==
    LET r == procs[p]
    IN {PageResult(rows, count(notes, WhereOf(r)), r.q.page, r.q.limit) :
           rows \in findMany(notes, WhereOf(r), SkipOf(r.q), r.q.limit)}

\* C14: a findAll whose cache read failed goes on to query the store; it
\* ends with a store error or returns a page computed from the store, the one
\* it returns with an empty cache, and never an error of the cache.
C14_GetFailureIsMiss ==
    \A p \in Procs : procs[p].getFailed =>
        /\ procs[p].op = "findAll"
        /\ procs[p].pc \in {"query", "done"}
        /\ procs[p].pc = "done" =>
              /\ procs[p].status \in {"ok", "StoreError"}
              /\ procs[p].status = "ok" =>
                    ~procs[p].hit /\ procs[p].page \in Computed(p)

\* the cache held an entry under the key, the read of it failed, and findAll
\* returned a page with notes that it computed from the store
C14_Witness ==
    \E p \in Procs :
        /\ procs[p].getFailed /\ PageAnswer(p)
        /\ procs[p].key \in DOMAIN cache
        /\ procs[p].page.total >= 1
        /\ procs[p].page \in Computed(p)

\* C15: a findAll whose cache write failed has returned the page it computed
\* from the store, and no error.
C15_SetFailureSwallowed ==
    \A p \in Procs : procs[p].setFailed =>
        /\ PageAnswer(p)
        /\ ~procs[p].hit
        /\ procs[p].page \in Computed(p)

\* a cache write has failed: nothing is cached under the key and findAll has
\* returned its page with notes
C15_Witness ==
    \E p \in Procs :
        /\ procs[p].setFailed /\ PageAnswer(p)
        /\ procs[p].key \notin DOMAIN cache
        /\ procs[p].page.total >= 1

\* C16: the step in which the invalidation of a create, update or remove
\* fails ends the call with its normal result: the store mutation the call
\* applied is left as it is, the store and the cache are not touched, and
\* the call makes no further step.
C16_InvalidationFailureSwallowed ==
    [][\A p \in Procs :
          (procs[p].pc = "invalidate" /\ procs'[p] # procs[p]
              /\ ~procs'[p].invOk) =>
             /\ procs'[p].pc = "done" /\ procs'[p].status = "ok"
             /\ procs'[p].myVer = procs[p].myVer /\ procs[p].myVer >= 1
             /\ ver[procs[p].user] >= procs[p].myVer
             /\ notes' = notes /\ ver' = ver /\ cache' = cache]_vars

\* a remove has returned normally after its invalidation failed: the note is
\* gone from the store and the entries of the user are still in the cache
C16_Witness ==
    \E p \in Procs :
        /\ ReturnedOk(p) /\ ~procs[p].invOk /\ procs[p].op = "remove"
        /\ procs[p].id \notin DOMAIN notes
        /\ UserKeys(cache, procs[p].user) # {}

\* C17: the rows of a page computed from the store are in descending order
\* of updatedAt, and rows with the same updatedAt are in ascending order of
\* id.
C17_TiesBrokenById ==
    \A p \in Procs : MissAnswer(p) =>
        LET rows == procs[p].page.notes
        IN \A j, k \in 1..Len(rows) : j < k =>
              \/ rows[j].updatedAt > rows[k].updatedAt
              \/ rows[j].updatedAt = rows[k].updatedAt /\ rows[j].id < rows[k].id

\* t occurs in s when the case of the letters is ignored
OccursFolded(s, t) ==
    \E i \in 0..(Len(s) - Len(t)) :
        \A j \in 1..Len(t) : LowerChar(s[i + j]) = LowerChar(t[j])

\* the notes the search in slot p is to select: those of its user, in which
\* the term occurs in the title or the content unless it is absent or empty,
\* and which carry every tag of the tag list unless it is absent
Selected(p) ==
    LET q == procs[p].q
    IN {i \in DOMAIN notes :
          /\ notes[i].userId = procs[p].user
          /\ \/ q.search \in {<<>>, <<<<>>>>}
             \/ OccursFolded(notes[i].title, q.search[1])
             \/ OccursFolded(notes[i].content, q.search[1])
          /\ \/ q.tags = <<>>
             \/ \A t \in Range(q.tags[1]) : t \in Range(notes[i].tags)}

\* C18: on a cache miss findAll counts and returns exactly the notes of the
\* user in which the term, if there is one, occurs in the title or the
\* content whatever the case, and which carry the required tags; without a
\* term (absent or empty) and without tags (absent or the empty list) they
\* are all the notes of the user.
C18_TermFilter ==
    \A p \in Procs : MissAnswer(p) =>
        LET q == procs[p].q
            own == {i \in DOMAIN notes : notes[i].userId = procs[p].user}
        IN /\ procs[p].page.total = Cardinality(Selected(p))
           /\ PageIds(p) \subseteq Selected(p)
           /\ (q.page = 1 /\ Cardinality(Selected(p)) <= q.limit) =>
                 PageIds(p) = Selected(p)
           /\ (q.search \in {<<>>, <<<<>>>>} /\ q.tags \in {<<>>, <<<<>>>>}) =>
                 procs[p].page.total = Cardinality(own)

\* a search for "B" has returned the note titled "b" and the note whose
\* content is "aB", and no other
C18_Witness ==
    \E p \in Procs :
        /\ MissAnswer(p) /\ notes = Mixed /\ procs[p].user = "u1"
        /\ procs[p].q.search = <<<<"B">>>> /\ procs[p].q.tags = <<>>
        /\ PageIds(p) = {2, 3}

\* C19: every entry of the cache was written with a time to live of 300
\* seconds and has been in the cache for less than 300 seconds, so what a
\* search is served was written less than 300 seconds before.
C19_TtlBound ==
    \A k \in DOMAIN cache : cache[k].ttl = 300 /\ cache[k].age < 300

\* a search has cached its page, time has passed and the entry is gone,
\* while an entry written later is still served
C19_Witness ==
    \E p, r \in Procs :
        /\ MissAnswer(p) /\ ~procs[p].setFailed
        /\ procs[p].key \notin DOMAIN cache
        /\ PageAnswer(r) /\ procs[r].hit
        /\ procs[r].key \in DOMAIN cache /\ cache[procs[r].key].age > 0

\* slot p holds a call that has not returned
InFlight(p) == procs[p].pc \in {"get", "query", "store", "invalidate"}

-----------------------------------------------------------------------------
(* C21: titles are never empty *)

\* C21: every note in the store has a non-empty title, after any sequence of
\* create and update requests (an empty title is rejected by the validation)
C21_TitlesNonEmpty == \A i \in DOMAIN notes : notes[i].title # <<>>

-----------------------------------------------------------------------------
(* C22: a cache hit *)

\* C22: a findAll call answered from the cache returns the page of the entry
\* as it is, in one step from the cache read: it runs neither findMany nor
\* count (it never waits for the store and holds no store answer) and it
\* leaves the cache and the store as they are.
C22_HitReadsNothing ==
    [][\A p \in Procs :
          (procs'[p] # procs[p] /\ procs'[p].hit) =>
              /\ procs[p].pc \notin {"query"}
              /\ procs'[p].pc = "done" /\ procs'[p].status = "ok"
              /\ procs'[p].key \in DOMAIN cache
              /\ procs'[p].page = cache[procs'[p].key].page
              /\ procs'[p].items = <<>> /\ procs'[p].total = <<>>
              /\ cache' = cache /\ notes' = notes /\ ver' = ver]_vars

\* a search was answered from an entry that had been in the cache for a while
C22_Witness ==
    \E p \in Procs :
        /\ PageAnswer(p) /\ procs[p].hit
        /\ procs[p].key \in DOMAIN cache
        /\ cache[procs[p].key].age > 0
        /\ procs[p].page = cache[procs[p].key].page
        /\ procs[p].page.total > 0

-----------------------------------------------------------------------------
(* Two users search and change their notes *)

\* the searches both users send: all notes, and the notes with tag a
TenantDtos == {QueryDto(<<>>, <<>>, <<>>, <<>>), QueryDto(<<>>, <<<<TagA>>>>, <<>>, <<>>)}

\* the requests are handled one at a time here
TenantProcs == {"p1"}

InitTenant ==
    /\ notes \in {<<>>, Mixed}
    /\ nextId = Len(notes) + 1
    /\ now = Len(notes)
    /\ cache = <<>>
    /\ procs = [p \in Procs |-> Idle]
    /\ ver = [u \in Users |-> 0]
    /\ NoAuth /\ NoClient

NextTenant ==
    \/ \E p \in TenantProcs, u \in Users, dto \in TenantDtos : FindAllHit(p, u, dto)
    \/ \E p \in TenantProcs, u \in Users, dto \in TenantDtos : FindAllMiss(p, u, dto)
    \/ \E p \in TenantProcs : FindMany(p)
    \/ \E p \in TenantProcs : Count(p)
    \/ \E p \in TenantProcs : CacheSet(p)
    \/ \E p \in TenantProcs, u \in Users, dto \in LiveCreateDtos : CreateStore(p, u, dto)
    \/ \E p \in TenantProcs, u \in Users, id \in StoreIds, dto \in TagUpdateDtos :
          MutFindOne(p, u, "update", id, dto)
    \/ \E p \in TenantProcs, u \in Users, id \in StoreIds :
          MutFindOne(p, u, "remove", id, NoDto)
    \/ \E p \in TenantProcs : UpdateStore(p)
    \/ \E p \in TenantProcs : RemoveStore(p)
    \/ \E p \in TenantProcs : Invalidate(p)

SpecTenant == InitTenant /\ [][NextTenant]_vars

-----------------------------------------------------------------------------
(* C23: tenant isolation of search *)

\* C23: every note in a page findAll returned to user U is owned by U, whether
\* the page was computed from the store or served from the cache, after any
\* searches, creates, updates and removes of both users.
C23_TenantIsolation ==
    \A p \in Procs :
        PageAnswer(p) =>
            \A i \in DOMAIN procs[p].page.notes :
                procs[p].page.notes[i].userId = procs[p].user

\* u2 was served its note from the cache while the store holds notes of u1
\* and the cache holds a page of u1 for the same search
C23_Witness ==
    \E p \in Procs :
        /\ PageAnswer(p) /\ procs[p].hit /\ procs[p].user = "u2"
        /\ procs[p].page.notes # <<>>
        /\ \E i \in DOMAIN notes : notes[i].userId = "u1"
        /\ \E k \in DOMAIN cache :
              /\ k[1] = "u1" /\ cache[k].page.notes # <<>>
              /\ cache[k].by[3] = Meaning("u2", procs[p].q)[3]

-----------------------------------------------------------------------------
(* C24: invalidation touches the caller's entries only *)

\* C24: every step of a create, update or remove call of user U leaves the
\* cache entries of every other user as they are: none is deleted, none is
\* changed, and none appears.
C24_OtherUsersEntriesKept ==
    [][\A p \in Procs :
          (procs'[p] # procs[p] /\ procs'[p].op \in MutOps) =>
              /\ \A k \in DOMAIN cache :
                    cache[k].by[1] # procs'[p].user =>
                        k \in DOMAIN cache' /\ cache'[k] = cache[k]
              /\ \A k \in DOMAIN cache' :
                    cache'[k].by[1] # procs'[p].user => k \in DOMAIN cache]_vars

\* a mutation of u1 has returned with the invalidation done: no entry of u1
\* is left and the cache holds the entries of u2
C24_Witness ==
    \E p \in Procs :
        /\ ReturnedOk(p) /\ procs[p].invOk /\ procs[p].user = "u1"
        /\ \A k \in DOMAIN cache : cache[k].by[1] # "u1"
        /\ Cardinality({k \in DOMAIN cache : cache[k].by[1] = "u2"}) = Cardinality(WarmDtos)

-----------------------------------------------------------------------------
(* C25: a refused update or remove changes nothing *)

\* C25: an update or remove of a note that does not exist or that the caller
\* does not own ends in its first step with NotFound or Forbidden, and that
\* step leaves the store and the cache entries of every user as they are.
C25_RefusedMutationChangesNothing ==
    [][\A p \in Procs :
          (/\ procs'[p] # procs[p]
           /\ Free(p)
           /\ procs'[p].op \in {"update", "remove"}
           /\ \/ procs'[p].id \notin DOMAIN notes
              \/ notes[procs'[p].id].userId # procs'[p].user) =>
              /\ procs'[p].pc = "done"
              /\ procs'[p].status =
                    IF procs'[p].id \in DOMAIN notes THEN "Forbidden" ELSE "NotFound"
              /\ ~procs'[p].invOk /\ procs'[p].myVer = 0
              /\ notes' = notes /\ cache' = cache /\ ver' = ver]_vars

\* u2 was refused an update of a note of u1, and a remove of a note that does
\* not exist would be refused, with entries of both users in the cache
C25_Witness ==
    \E p \in Procs :
        /\ procs[p].op = "update" /\ procs[p].pc = "done" /\ procs[p].status = "Forbidden"
        /\ procs[p].id \in DOMAIN notes /\ notes[procs[p].id].userId # procs[p].user
        /\ \A u \in Users : \E k \in DOMAIN cache : cache[k].by[1] = u

-----------------------------------------------------------------------------
(* C26: the store mutation of update or remove finds the note deleted *)

\* C26: when the store mutation of an update or remove call runs after the
\* note has been deleted by a concurrent call, the call fails with NotFound
\* (a failure of the store itself aside)
C26_LateMutationNotFound ==
    [][\A p \in Procs :
          (/\ procs[p].pc = "store"
           /\ procs[p].id \notin DOMAIN notes
           /\ procs'[p].pc = "done") =>
              procs'[p].status \in {"NotFound", "StoreError"}]_vars

-----------------------------------------------------------------------------
(* C27: the items and the total of a page *)

\* C27: in every page findAll computed from the store, the number of items
\* is min(limit, max(0, total - (page - 1) * limit)), also when a create or
\* remove of the same user is applied between findMany and count
C27_ItemsMatchTotal ==
    \A p \in Procs :
        MissAnswer(p) =>
            Len(procs[p].page.notes) =
                Min2(procs[p].page.limit,
                     Max2(0, procs[p].page.total
                               - (procs[p].page.page - 1) * procs[p].page.limit))

-----------------------------------------------------------------------------
(* C28: a failed store read of findAll *)

\* C28: when a store read of findAll fails on a cache miss, the call ends
\* with the store's error, returns no page and writes nothing to the cache;
\* an entry is written only by a call that holds the answers of both store
\* reads, and it holds the page built from them.
C28_FailedReadCachesNothing ==
    [][/\ \A p \in Procs :
             (/\ procs[p].pc = "query"
              /\ procs'[p].pc = "done"
              /\ procs'[p].status # "ok") =>
                 /\ procs'[p].status = "StoreError"
                 /\ procs'[p].page = NoPage
                 /\ cache' = cache
       /\ \A k \in DOMAIN cache' :
             (k \notin DOMAIN cache \/ cache'[k] # cache[k]) =>
                 \E p \in Procs :
                     /\ procs[p].pc = "query" /\ procs[p].key = k
                     /\ procs[p].items # <<>> /\ procs[p].total # <<>>
                     /\ procs'[p].status = "ok"
                     /\ cache'[k].page = ResultOf(procs[p])]_vars

\* a search failed on its store read and left no entry under its key, while
\* a search whose reads succeeded has its page in the cache
C28_Witness ==
    \E p, r \in Procs :
        /\ procs[p].op = "findAll" /\ procs[p].pc = "done"
        /\ procs[p].status = "StoreError"
        /\ procs[p].key \notin DOMAIN cache
        /\ MissAnswer(r) /\ procs[r].key \in DOMAIN cache
        /\ cache[procs[r].key].page = procs[r].page

-----------------------------------------------------------------------------
(* C29: concurrent registrations *)

\* C29: at most one user exists per email address, and every register call
\* that did not succeed has failed with the 'User with this email already
\* exists' error, under any interleaving of the register calls
C29_OneUserPerEmail ==
    /\ \A i, j \in DOMAIN users : users[i].email = users[j].email => i = j
    /\ \A r \in RegProcs :
          (regs[r].pc = "done" /\ regs[r].status # "ok") =>
              regs[r].status = "User with this email already exists"

-----------------------------------------------------------------------------
(* C30: the response interceptor retries once *)

\* C30: for every request the interceptor makes at most one refresh and one
\* re-send; an error of a request that was already retried is rejected to
\* the caller with no refresh and no re-send; and a refresh that fails
\* removes both stored tokens.
C30_RetryAtMostOnce ==
    [][\A q \in Reqs :
          /\ reqs'[q].refreshes <= 1 /\ reqs'[q].sends <= 2
          /\ (reqs[q].pc = "sent" /\ reqs[q].retry /\ reqs'[q] # reqs[q]) =>
                /\ reqs'[q].pc = "done"
                /\ reqs'[q].refreshes = reqs[q].refreshes
                /\ reqs'[q].sends = reqs[q].sends
                /\ localStorage' = localStorage
          /\ (reqs[q].pc = "refreshing" /\ reqs'[q].pc = "done") =>
                /\ reqs'[q].outcome = "rejected"
                /\ ~localStorage'.accessToken /\ ~localStorage'.refreshToken]_vars

\* a request was refreshed and sent again, the second answer was a 401 too
\* and it was rejected, while the refresh of another request has failed and
\* left no token
C30_Witness ==
    \E q, o \in Reqs :
        /\ reqs[q].pc = "done" /\ reqs[q].outcome = "rejected"
        /\ reqs[q].status = 401 /\ reqs[q].sends = 2 /\ reqs[q].refreshes = 1
        /\ reqs[o].pc = "done" /\ reqs[o].outcome = "rejected"
        /\ reqs[o].sends = 1 /\ reqs[o].refreshes = 1
        /\ ~localStorage.accessToken /\ ~localStorage.refreshToken

====
